---- MODULE Spec2Model ----
(***************************************************************************)
(* Model of ot_query.py: one invocation of main(target_id, disease_id).    *)
(* The Open Targets client is an external collaborator: every call of      *)
(* filter_associations either raises or yields some sequence of records.   *)
(* Times are in 1/1000 s, scores in 1/1000 (the precision of the ':.3f'    *)
(* format used by print_summary_metrics).                                  *)
(***************************************************************************)
EXTENDS Integers, Sequences, FiniteSets, TLC

\* ------------------------------------------------------------------ bounds
\* Longest response the modelled API yields.
MaxRecords == 3

\* ------------------------------------------------- constants of the program
\* @retry.retry(tries=5, delay=5, backoff=1.2, jitter=(1, 3))
RetryTries == 5
RetryDelay == 5000
RetryBackoffNum == 12
RetryBackoffDen == 10
RetryJitterLo == 1000
RetryJitterHi == 3000

\* ------------------------------------------------------------ Python values
PyNone == [type |-> "NoneType"]
PyStr(s) == [type |-> "str", v |-> s]
PyList(items) == [type |-> "list", items |-> items]
PyDataFrame(rows) == [type |-> "DataFrame", rows |-> rows]

\* bool(x) of a str or None, as used by "... if filter_value else None".
Truthy(x) == x.type = "str" /\ x.v # ""

\* Values argparse / a caller can hand to main.
FilterValues == {PyNone, PyStr(""), PyStr("a")}

\* One association as the client yields it: nested fields.
ApiRecord(t, d, s) ==
    [target |-> [id |-> t], disease |-> [id |-> d],
     association_score |-> [overall |-> s]]

\* The associations the modelled API can yield: for either filter type,
\* records that carry the queried identifier "a" and records that carry
\* another one, with two different scores among each.
ApiRecords ==
    { ApiRecord("a", "a", 500), ApiRecord("a", "b", 1000),
      ApiRecord("b", "a", 1000), ApiRecord("b", "b", 500) }

\* Every iterable filter_associations can yield within the bound.
Responses == UNION { [1..n -> ApiRecords] : n \in 0..MaxRecords }

\* Jitter drawn by random.uniform(1, 3): the two ends of the interval.
Jitters == {RetryJitterLo, RetryJitterHi}

VARIABLES
    pc,                  \* position of the program
    target_id,           \* argument of main
    disease_id,          \* argument of main
    cur,                 \* index in FilterTypes of the loop of get_associations
    association_result,  \* the dict under construction, in insertion order
    ret,                 \* per filter type: what query_rest_api returned
    tries_left,          \* _tries of the retry loop
    cur_delay,           \* _delay of the retry loop
    slept,               \* the delays time.sleep was called with, this call
    sleeps,              \* per filter type: calls of time.sleep
    last,                \* outcome of the latest attempt of this call
    calls,               \* per filter type: calls of filter_associations
    attempts,            \* per filter type: executions of the wrapped body
    last_kwargs,         \* keyword arguments of the latest filter_associations
    last_response,       \* what the latest filter_associations yielded
    output,              \* what the reporter printed, in order
    error                \* the uncaught exception, if any

vars == <<pc, target_id, disease_id, cur, association_result, ret, tries_left,
          cur_delay, slept, sleeps, last, calls, attempts, last_kwargs,
          last_response, output, error>>

Pending == [type |-> "pending"]

\* The two filter types taken in the other order.
FilterItemsSwapped == << <<"disease", disease_id>>, <<"target", target_id>> >>

\* The tuple get_associations iterates:
\* (('target', target_id), ('disease', disease_id)).
FilterItems == << <<"target", target_id>>, <<"disease", disease_id>> >>

CurType == FilterItems[cur][1]
CurValue == FilterItems[cur][2]

Init ==
    /\ pc = "main"
    /\ target_id \in FilterValues
    /\ disease_id \in FilterValues
    /\ cur = 1
    /\ association_result = <<>>
    /\ ret = [k \in {"target", "disease"} |-> Pending]
    /\ tries_left = 0
    /\ cur_delay = 0
    /\ slept = <<>>
    /\ sleeps = [k \in {"target", "disease"} |-> 0]
    /\ last = "none"
    /\ calls = [k \in {"target", "disease"} |-> 0]
    /\ attempts = [k \in {"target", "disease"} |-> 0]
    /\ last_kwargs = <<>>
    /\ last_response = <<>>
    /\ output = <<>>
    /\ error = "none"

\* Entry of the decorated query_rest_api: _tries, _delay = tries, delay.
EnterRetry ==
    /\ tries_left' = RetryTries
    /\ cur_delay' = RetryDelay
    /\ slept' = <<>>
    /\ last' = "none"

\* main: build the client and call get_associations, which starts its loop.
Main ==
    /\ pc = "main"
    /\ pc' = "query_rest_api"
    /\ cur' = 1
    /\ association_result' = <<>>
    /\ EnterRetry
    /\ UNCHANGED <<target_id, disease_id, ret, sleeps, calls, attempts,
                   last_kwargs, last_response, output, error>>

\* Return from the decorated query_rest_api: the frame of the retry loop,
\* with _tries and _delay, is gone.
LeaveRetry ==
    /\ tries_left' = 0
    /\ cur_delay' = 0
    /\ slept' = <<>>

\* list(iterable): the items in the order the iterable yields them.
ToList(iterable) == PyList([i \in 1..Len(iterable) |-> iterable[i]])

\* The keyword arguments of filter_associations(**{filter_type: filter_value}).
Kwargs(filter_type, filter_value) == [n \in {filter_type} |-> filter_value]

\* A body without the conditional: the client is always called.
CallsClientAlways(filter_value) == TRUE

\* "... if filter_value else None": whether the body calls the client.
CallsClient(filter_value) == Truthy(filter_value)

\* A delay that grows by the jitter alone.
NextDelayNoBackoff(d, jitter) == d + jitter

\* _delay *= backoff; _delay += random.uniform(*jitter)
NextDelay(d, jitter) == (d * RetryBackoffNum) \div RetryBackoffDen + jitter

\* One pass of "while _tries: try: return f()" whose body takes the else
\* branch of line 42: no client call, None is returned.
AttemptReturnsNone ==
    /\ pc = "query_rest_api"
    /\ tries_left > 0
    /\ ~CallsClient(CurValue)
    /\ attempts' = [attempts EXCEPT ![CurType] = @ + 1]
    /\ ret' = [ret EXCEPT ![CurType] = PyNone]
    /\ last' = "returned"
    /\ pc' = "get_associations"
    /\ LeaveRetry
    /\ UNCHANGED <<target_id, disease_id, cur, association_result, sleeps,
                   calls, last_kwargs, last_response, output, error>>

\* One pass whose client call yields resp: the list is returned.
AttemptReturnsList(resp) ==
    /\ pc = "query_rest_api"
    /\ tries_left > 0
    /\ CallsClient(CurValue)
    /\ attempts' = [attempts EXCEPT ![CurType] = @ + 1]
    /\ calls' = [calls EXCEPT ![CurType] = @ + 1]
    /\ last_kwargs' = Kwargs(CurType, CurValue)
    /\ last_response' = resp
    /\ ret' = [ret EXCEPT ![CurType] = ToList(resp)]
    /\ last' = "returned"
    /\ pc' = "get_associations"
    /\ LeaveRetry
    /\ UNCHANGED <<target_id, disease_id, cur, association_result, sleeps,
                   output, error>>

\* One pass whose client call raises: "except exceptions: _tries -= 1;
\* if not _tries: raise; time.sleep(_delay); _delay *= backoff;
\* _delay += random.uniform(*jitter)".
AttemptRaises(jitter) ==
    /\ pc = "query_rest_api"
    /\ tries_left > 0
    /\ CallsClient(CurValue)
    /\ attempts' = [attempts EXCEPT ![CurType] = @ + 1]
    /\ calls' = [calls EXCEPT ![CurType] = @ + 1]
    /\ last_kwargs' = Kwargs(CurType, CurValue)
    /\ last' = "raised"
    /\ tries_left' = tries_left - 1
    /\ IF tries_left - 1 = 0
       THEN /\ pc' = "raised"
            /\ error' = "Exception"
            /\ UNCHANGED <<slept, sleeps, cur_delay>>
       ELSE /\ slept' = Append(slept, cur_delay)
            /\ sleeps' = [sleeps EXCEPT ![CurType] = @ + 1]
            /\ cur_delay' = NextDelay(cur_delay, jitter)
            /\ UNCHANGED <<pc, error>>
    /\ UNCHANGED <<target_id, disease_id, cur, association_result, ret,
                   last_response, output>>

\* A row of the dataframe built from one association (lines 66-70).
Row(a) == [target_id |-> a.target.id, disease_id |-> a.disease.id,
           score_overall |-> a.association_score.overall]

ToDataFrame(associations) ==
    PyDataFrame([i \in 1..Len(associations.items) |-> Row(associations.items[i])])

\* row[filter_type + '_id']
IdOf(row, filter_type) ==
    IF filter_type = "target" THEN row.target_id ELSE row.disease_id

\* set(result[filter_type + '_id']), a set of str.
IdSet(result, filter_type) ==
    { PyStr(IdOf(result.rows[i], filter_type)) : i \in 1..Len(result.rows) }

\* A check that only requires the queried identifier to occur.
ApiSaneSubset(result, filter_type, filter_value) ==
    filter_value \in IdSet(result, filter_type)

\* assert set(result[filter_type + '_id']) == {filter_value}
ApiSane(result, filter_type, filter_value) ==
    IdSet(result, filter_type) = {filter_value}

\* association_result[filter_type] = result, on an insertion-ordered dict.
DictSet(d, key, value) ==
    IF \E i \in 1..Len(d) : d[i].key = key
    THEN [i \in 1..Len(d) |-> IF d[i].key = key THEN [key |-> key, value |-> value] ELSE d[i]]
    ELSE Append(d, [key |-> key, value |-> value])

\* The rest of one loop pass of get_associations once query_rest_api has
\* returned: build the result, verify it, store it, go on to the next
\* filter type or return to main.
GetAssociationsStep ==
    /\ pc = "get_associations"
    /\ LET associations == ret[CurType]
           result == IF associations = PyNone THEN PyNone
                     ELSE ToDataFrame(associations)
       IN  IF associations # PyNone /\ ~ApiSane(result, CurType, CurValue)
           THEN /\ pc' = "raised"
                /\ error' = "AssertionError"
                /\ UNCHANGED <<cur, association_result, tries_left, cur_delay,
                               slept, last>>
           ELSE /\ association_result' = DictSet(association_result, CurType, result)
                /\ error' = error
                /\ IF cur < Len(FilterItems)
                   THEN /\ cur' = cur + 1
                        /\ pc' = "query_rest_api"
                        /\ EnterRetry
                   ELSE /\ pc' = "print_association_data"
                        /\ UNCHANGED <<cur, tries_left, cur_delay, slept, last>>
    /\ UNCHANGED <<target_id, disease_id, ret, sleeps, calls, attempts,
                   last_kwargs, last_response, output>>

\* ---------------------------------------------------------------- reporter
\* A number as '{:.3f}' prints it: thousandths, or nan.
Number(milli) == [nan |-> FALSE, milli |-> milli]
NaN == [nan |-> TRUE]

\* results.score_overall
ScoreOverall(results) == [i \in 1..Len(results.rows) |-> results.rows[i].score_overall]

RECURSIVE SeqSum(_)
SeqSum(xs) == IF xs = <<>> THEN 0 ELSE Head(xs) + SeqSum(Tail(xs))

SeqMin(xs) == CHOOSE x \in {xs[i] : i \in 1..Len(xs)} : \A j \in 1..Len(xs) : x <= xs[j]
SeqMax(xs) == CHOOSE x \in {xs[i] : i \in 1..Len(xs)} : \A j \in 1..Len(xs) : x >= xs[j]

\* num / den rounded to the nearest integer (num >= 0, den > 0).
RoundDiv(num, den) == (2 * num + den) \div (2 * den)

\* sqrt(num / den) rounded to the nearest integer: the largest r in lo..hi
\* with r = 0 or (r - 1/2)^2 <= num / den.
RECURSIVE RoundSqrt(_, _, _, _)
RoundSqrt(lo, hi, num, den) ==
    IF lo >= hi THEN lo
    ELSE LET mid == (lo + hi + 1) \div 2
         IN  IF (2 * mid - 1) * (2 * mid - 1) * den <= 4 * num
             THEN RoundSqrt(mid, hi, num, den)
             ELSE RoundSqrt(lo, mid - 1, num, den)

\* Series.min(), Series.max(), Series.mean() of a non-empty series.
SeriesMin(xs) == Number(SeqMin(xs))
SeriesMax(xs) == Number(SeqMax(xs))
SeriesMean(xs) == Number(RoundDiv(SeqSum(xs), Len(xs)))

\* Series.std(): ddof = 1, so sqrt(sum((x - mean)^2) / (N - 1)), which is
\* 0 / 0 = nan for a single value.  With S the sum, the quotient is
\* sum((N x - S)^2) / (N^2 (N - 1)).
SeriesStd(xs) ==
    LET n == Len(xs)
        sq == [i \in 1..n |-> (n * xs[i] - SeqSum(xs)) * (n * xs[i] - SeqSum(xs))]
    IN  IF n - 1 = 0 THEN NaN
        ELSE Number(RoundSqrt(0, SeqMax(xs) - SeqMin(xs), SeqSum(sq), n * n * (n - 1)))

\* What one pass of the loop of print_association_data prints.
RawBody(results) ==
    IF results = PyNone THEN [kind |-> "no_filter"]
    ELSE IF Len(results.rows) = 0 THEN [kind |-> "no_results"]
    ELSE [kind |-> "table", rows |-> results.rows]

\* What one pass of the loop of print_summary_metrics prints.
SummaryBody(results) ==
    IF results = PyNone THEN [kind |-> "no_filter"]
    ELSE IF Len(results.rows) = 0 THEN [kind |-> "no_results"]
    ELSE [kind |-> "metrics",
          minimum |-> SeriesMin(ScoreOverall(results)),
          maximum |-> SeriesMax(ScoreOverall(results)),
          mean |-> SeriesMean(ScoreOverall(results)),
          std |-> SeriesStd(ScoreOverall(results))]

\* for filter_type, results in associations.items(): insertion order.
RawDump(associations) ==
    [i \in 1..Len(associations) |->
        [section |-> "raw", filter_type |-> associations[i].key,
         body |-> RawBody(associations[i].value)]]

SummaryDump(associations) ==
    [i \in 1..Len(associations) |->
        [section |-> "summary", filter_type |-> associations[i].key,
         body |-> SummaryBody(associations[i].value)]]

PrintAssociationData ==
    /\ pc = "print_association_data"
    /\ output' = output \o RawDump(association_result)
    /\ pc' = "print_summary_metrics"
    /\ UNCHANGED <<target_id, disease_id, cur, association_result, ret,
                   tries_left, cur_delay, slept, sleeps, last, calls, attempts,
                   last_kwargs, last_response, error>>

PrintSummaryMetrics ==
    /\ pc = "print_summary_metrics"
    /\ output' = output \o SummaryDump(association_result)
    /\ pc' = "exit"
    /\ UNCHANGED <<target_id, disease_id, cur, association_result, ret,
                   tries_left, cur_delay, slept, sleeps, last, calls, attempts,
                   last_kwargs, last_response, error>>

\* The exit status of the interpreter: 0 when main returns, 1 when an
\* exception reaches the top level, -1 while the program runs.
ExitStatus ==
    IF pc = "exit" THEN 0 ELSE IF pc = "raised" THEN 1 ELSE -1

Next ==
    \/ Main
    \/ AttemptReturnsNone
    \/ \E resp \in Responses : AttemptReturnsList(resp)
    \/ \E jitter \in Jitters : AttemptRaises(jitter)
    \/ GetAssociationsStep
    \/ PrintAssociationData
    \/ PrintSummaryMetrics

Spec == Init /\ [][Next]_vars

\* ------------------------------------------------------------------ claims
Kinds == {"target", "disease"}

\* The filter value main was given for a filter type.
ValueOf(k) == IF k = "target" THEN target_id ELSE disease_id

\* query_rest_api has returned for k.
Returned(k) == ret[k] # Pending

\* The loop pass of get_associations for k is over: stored or aborted.
Handled(k) == Returned(k) /\ ~(pc = "get_associations" /\ CurType = k)

\* association_result has an entry for k, and the entry.
Stored(k) == \E i \in 1..Len(association_result) : association_result[i].key = k
ResultOf(k) ==
    association_result[CHOOSE i \in 1..Len(association_result) :
                           association_result[i].key = k].value

\* get_associations has returned its dict to main.
ReturnedToMain == pc \in {"print_association_data", "print_summary_metrics", "exit"}

\* C1: for each kind, when a non-null filter value is supplied and the API
\* returns zero records for it, query_rest_api returns an empty list and
\* get_associations raises no error and stores an empty table under that
\* kind.
C1_EmptyResultStored ==
    \A k \in Kinds :
        (ValueOf(k) # PyNone /\ ret[k] = PyList(<<>>) /\ Handled(k))
        => /\ error = "none"
           /\ Stored(k)
           /\ ResultOf(k) = PyDataFrame(<<>>)

\* The input category of a kind: unspecified, a value the API has no
\* records for, a value the API has records for.
Category(k) ==
    IF ValueOf(k) = PyNone THEN "Unspecified"
    ELSE IF ret[k] = PyList(<<>>) THEN "Empty"
    ELSE IF /\ ret[k].type = "list"
            /\ \A i \in 1..Len(ret[k].items) :
                  PyStr(IdOf(Row(ret[k].items[i]), k)) = ValueOf(k)
         THEN "Populated"
    ELSE "other"

\* The state of a kind in the result of get_associations.
StateOf(k) ==
    IF ~Stored(k) THEN "absent"
    ELSE IF ResultOf(k) = PyNone THEN "Unspecified"
    ELSE IF Len(ResultOf(k).rows) = 0 THEN "Empty"
    ELSE "Populated"

\* C2: for every combination of target and disease inputs, each unspecified,
\* without records or with records, get_associations returns and the state
\* of each kind (Unspecified, Empty, Populated) is the one of that kind's
\* own input category, whatever the other kind's input.
C2_StateMatchesCategory ==
    /\ \A k \in Kinds :
          (Handled(k) /\ Category(k) # "other") => StateOf(k) = Category(k)
    /\ (pc = "raised" /\ error = "AssertionError") => Category(CurType) = "other"

\* C3: for each kind, query_rest_api called with a null filter value returns
\* None, with no call of filter_associations, no second attempt and no sleep.
C3_NullValueNoCall ==
    \A k \in Kinds :
        ValueOf(k) = PyNone
        => /\ calls[k] = 0
           /\ sleeps[k] = 0
           /\ attempts[k] <= 1
           /\ (CurType = k => slept = <<>>)
           /\ (Returned(k) => ret[k] = PyNone /\ attempts[k] = 1)
           /\ ~(pc = "raised" /\ CurType = k)

\* Both kinds were queried with None and query_rest_api has returned for both.
C3_Witness ==
    /\ target_id = PyNone /\ disease_id = PyNone
    /\ ret["target"] = PyNone /\ ret["disease"] = PyNone
    /\ attempts["target"] = 1 /\ attempts["disease"] = 1

\* The API's response for k holds a record whose <k>_id is not the value.
Mismatch(k) ==
    /\ ret[k].type = "list"
    /\ \E i \in 1..Len(ret[k].items) :
          PyStr(IdOf(Row(ret[k].items[i]), k)) # ValueOf(k)

\* C4: when get_associations returns normally, every row of a non-empty
\* table stored for a kind carries that kind's filter value in <kind>_id;
\* and when the API's non-empty response holds a record with another
\* <kind>_id, get_associations aborts with the assertion error, the records
\* are not stored and no result reaches main.
C4_ConsistentOrAbort ==
    /\ ReturnedToMain =>
          \A k \in Kinds :
              (Stored(k) /\ ResultOf(k) # PyNone) =>
                  \A i \in 1..Len(ResultOf(k).rows) :
                      PyStr(IdOf(ResultOf(k).rows[i], k)) = ValueOf(k)
    /\ \A k \in Kinds :
          (Handled(k) /\ Mismatch(k))
          => /\ pc = "raised"
             /\ error = "AssertionError"
             /\ ~Stored(k)
             /\ output = <<>>

\* The disease query was answered with a matching and a mismatching record
\* after the target's table was stored, and get_associations has aborted.
C4_Witness ==
    /\ pc = "raised" /\ error = "AssertionError"
    /\ Stored("target") /\ ResultOf("target") # PyNone
    /\ Mismatch("disease")
    /\ \E i \in 1..Len(ret["disease"].items) :
          PyStr(IdOf(Row(ret["disease"].items[i]), "disease")) = disease_id

\* C5: invoked with neither identifier, the program reports a usage error and
\* ends with a non-zero status before any network activity, without running
\* the aggregator and without printing.
C5_UsageError ==
    (target_id = PyNone /\ disease_id = PyNone /\ pc \in {"exit", "raised"})
    => /\ ExitStatus # 0
       /\ error = "UsageError"
       /\ output = <<>>
       /\ \A k \in Kinds : calls[k] = 0 /\ attempts[k] = 0

\* C6: one query_rest_api call with a non-null value attempts the network
\* call at least once and at most 5 times; a further attempt follows only an
\* attempt that raised; the first success ends the retrying and is returned;
\* after 5 failures the error is re-raised and ends the invocation uncaught.
C6_RetryBound ==
    \A k \in Kinds :
        ValueOf(k) # PyNone
        => /\ calls[k] <= 5
           /\ (Returned(k) => calls[k] >= 1 /\ ret[k].type = "list")
           /\ (pc = "query_rest_api" /\ CurType = k /\ calls[k] > 0
                  => last = "raised")
           /\ (pc = "raised" /\ error = "Exception" /\ CurType = k
                  => /\ calls[k] = 5
                     /\ ~Returned(k)
                     /\ ExitStatus = 1
                     /\ output = <<>>)

\* C7 as stated: every delay slept is a computed delay (5, then times 1.2 per
\* failure) plus a jitter from [1, 3], so each delay is at least 6, the delays
\* increase strictly and none is slept after the 5th failed attempt.
C7_JitteredDelays ==
    /\ Len(slept) <= 4
    /\ \A i \in 1..Len(slept) : slept[i] >= 6000
    /\ Len(slept) >= 1 => /\ slept[1] - 5000 >= 1000
                          /\ slept[1] - 5000 <= 3000
    /\ \A i \in 2..Len(slept) : slept[i] > slept[i - 1]

\* C7, amended: the first delay slept is exactly 5, without jitter; every
\* later delay is 1.2 times the delay slept before it plus a jitter from
\* [1, 3]; so each delay is at least 5, the delays increase strictly, at most
\* 4 are slept and none after the 5th failed attempt.
C7_DelaysAmended ==
    /\ Len(slept) <= 4
    /\ Len(slept) >= 1 => slept[1] = 5000
    /\ \A i \in 2..Len(slept) :
          /\ 10 * slept[i] - 12 * slept[i - 1] >= 10000
          /\ 10 * slept[i] - 12 * slept[i - 1] <= 30000
          /\ slept[i] > slept[i - 1]
    /\ \A i \in 1..Len(slept) : slept[i] >= 5000
    /\ \A k \in Kinds : sleeps[k] <= 4 /\ sleeps[k] <= calls[k]
    /\ (pc = "raised" /\ error = "Exception")
          => Len(slept) = 4 /\ sleeps[CurType] = 4 /\ calls[CurType] = 5

\* All five attempts of a query have failed, with four sleeps between them.
C7_Witness ==
    /\ pc = "raised" /\ error = "Exception"
    /\ Len(slept) = 4
    /\ slept[4] > slept[3] /\ slept[2] > 5000

\* C8: for every non-null filter value, the empty string included, each
\* attempt of query_rest_api issues exactly one call of filter_associations,
\* with the one named attribute kind = value, and what it yields is returned
\* as a list in the same order.
C8_OneCallPerAttempt ==
    \A k \in Kinds :
        ValueOf(k) # PyNone
        => /\ calls[k] = attempts[k]
           /\ (CurType = k /\ attempts[k] > 0
                  => last_kwargs = Kwargs(k, ValueOf(k)))
           /\ (CurType = k /\ pc = "get_associations"
                  => ret[k] = PyList(last_response))

\* The order in which the reporter prints its sections.
ExpectedOutputOrder ==
    << <<"raw", "target">>, <<"raw", "disease">>,
       <<"summary", "target">>, <<"summary", "disease">> >>

OutputKeys(o) == [i \in 1..Len(o) |-> <<o[i].section, o[i].filter_type>>]

IsPrefix(a, b) == Len(a) <= Len(b) /\ \A i \in 1..Len(a) : a[i] = b[i]

\* What the query of k has done so far: client calls, attempts, sleeps.
Activity(k) == <<calls[k], attempts[k], sleeps[k]>>

C9_Step ==
    /\ pc # "raised"
    /\ Activity("target")' # Activity("target")
          => /\ Activity("disease")' = <<0, 0, 0>>
             /\ ~Returned("disease")'
             /\ output' = <<>>
    /\ Activity("disease")' # Activity("disease")
          => /\ Stored("target")
             /\ Activity("target")' = Activity("target")
             /\ output' = <<>>
    /\ output' # output
          => /\ IsPrefix(output, output')
             /\ Activity("target")' = Activity("target")
             /\ Activity("disease")' = Activity("disease")
    /\ IsPrefix(OutputKeys(output'), ExpectedOutputOrder)
    /\ output' # <<>> => Stored("target")' /\ Stored("disease")' /\ error' = "none"
    /\ (pc' = "raised" /\ CurType' = "target")
          => Activity("disease")' = <<0, 0, 0>> /\ output' = <<>>

\* C9: within one invocation all attempts and sleeps of the target query come
\* first, then those of the disease query, then the raw dump of target, of
\* disease, the summary of target, of disease; the disease query is never
\* issued when the target query exhausts its retries or fails its check, and
\* nothing is printed unless both kinds were resolved without error.
C9_FixedOrder == [][C9_Step]_vars

\* A complete run in which both queries needed a retry.
C9_Witness ==
    /\ pc = "exit"
    /\ OutputKeys(output) = ExpectedOutputOrder
    /\ attempts["target"] > 1 /\ attempts["disease"] > 1
    /\ sleeps["target"] > 0 /\ sleeps["disease"] > 0

Defined(x) == ~x.nan

\* C10: the summary dump never emits an undefined statistic: for an
\* Unspecified or Empty result only the message, and for every Populated
\* result, a single row included, a defined minimum, maximum, mean and
\* sample standard deviation with minimum <= mean <= maximum.
C10_DefinedStatistics ==
    \A i \in 1..Len(output) :
        output[i].section = "summary"
        => LET b == output[i].body
               r == ResultOf(output[i].filter_type)
           IN  IF r = PyNone THEN b = [kind |-> "no_filter"]
               ELSE IF Len(r.rows) = 0 THEN b = [kind |-> "no_results"]
               ELSE /\ b.kind = "metrics"
                    /\ Defined(b.minimum) /\ Defined(b.maximum)
                    /\ Defined(b.mean) /\ Defined(b.std)
                    /\ b.minimum.milli <= b.mean.milli
                    /\ b.mean.milli <= b.maximum.milli
====
